---- MODULE Spec2Model ----
(***************************************************************************)
(* A model of SentenceFinder (src/src/index.ts): an in-memory index of a   *)
(* collection of sentences by word tokens, with multi-token search,        *)
(* ranked retrieval, prefix suggestion, merge and reset.                   *)
(*                                                                         *)
(* A JavaScript string is modelled as the sequence of its UTF-16 code      *)
(* units, each written as a one-character string: "ab" is <<"a", "b">>.    *)
(***************************************************************************)
EXTENDS Integers, Sequences, FiniteSets, TLC

(***************************************************************************)
(* Characters                                                              *)
(***************************************************************************)

\* The UTF-16 code unit of every character the model's texts use.
CodeUnit ==
    "\t" :> 9 @@ " " :> 32 @@ "," :> 44 @@ "-" :> 45 @@
    "F" :> 70 @@ "Q" :> 81 @@ "T" :> 84 @@
    "a" :> 97 @@ "b" :> 98 @@ "c" :> 99 @@ "e" :> 101 @@ "f" :> 102 @@
    "h" :> 104 @@ "i" :> 105 @@ "k" :> 107 @@ "n" :> 110 @@ "o" :> 111 @@
    "q" :> 113 @@ "r" :> 114 @@ "s" :> 115 @@ "t" :> 116 @@ "u" :> 117 @@
    "w" :> 119 @@ "x" :> 120 @@ "y" :> 121

\* \p{L} or \p{N}: the characters the default tokenizer keeps.
IsLetterOrNumber(c) == c \notin {"\t", " ", ",", "-"}

\* [\p{L}\p{N}'-]: the characters the strict tokenizer treats as word characters.
IsStrictWordChar(c) == IsLetterOrNumber(c) \/ c = "-"

\* \s: white space, as String.prototype.trim and /\s+/ see it.
IsWhiteSpace(c) == c \in {"\t", " "}

\* String.prototype.toLowerCase on one character.
LowerChar(c) ==
    CASE c = "F" -> "f"
      [] c = "Q" -> "q"
      [] c = "T" -> "t"
      [] OTHER -> c

(***************************************************************************)
(* String primitives                                                       *)
(***************************************************************************)

\* The value JavaScript yields for collection[idx] with idx out of range.
Undefined == <<"undefined">>

toLowerCase(s) == [i \in 1..Len(s) |-> LowerChar(s[i])]

\* String.prototype.trim: drop leading and trailing white space.
trim(s) ==
    LET keep == {i \in 1..Len(s) : ~IsWhiteSpace(s[i])}
    IN  IF keep = {} THEN <<>>
        ELSE LET lo == CHOOSE i \in keep : \A j \in keep : i <= j
                 hi == CHOOSE i \in keep : \A j \in keep : j <= i
             IN  SubSeq(s, lo, hi)

\* s.indexOf(t, pos) with 0-based positions; -1 when there is no occurrence.
indexOf(s, t, pos) ==
    LET at == {p \in pos..(Len(s) - Len(t)) : SubSeq(s, p + 1, p + Len(t)) = t}
    IN  IF at = {} THEN -1 ELSE CHOOSE p \in at : \A r \in at : p <= r

startsWith(s, t) == Len(t) <= Len(s) /\ SubSeq(s, 1, Len(t)) = t

includes(s, t) == indexOf(s, t, 0) # -1

\* The < of two strings: lexicographic order of the code units.
RECURSIVE StrLess(_, _)
StrLess(a, b) ==
    IF b = <<>> THEN FALSE
    ELSE IF a = <<>> THEN TRUE
    ELSE IF a[1] # b[1] THEN CodeUnit[a[1]] < CodeUnit[b[1]]
    ELSE StrLess(Tail(a), Tail(b))

\* Array.prototype.filter(Boolean) on an array of strings.
FilterBoolean(xs) == SelectSeq(xs, LAMBDA x : x # <<>>)

(***************************************************************************)
(* Tokenizers                                                              *)
(***************************************************************************)

\* text.split(/[^\p{L}\p{N}]+/u): the pieces between maximal runs of
\* characters that are neither letters nor numbers.  Empty pieces (before a
\* leading run, after a trailing one) are kept, as split keeps them.
RECURSIVE SplitNonWord(_, _, _)
SplitNonWord(text, i, cur) ==
    IF i > Len(text) THEN <<cur>>
    ELSE IF ~IsLetterOrNumber(text[i])
         THEN LET rest == {j \in (i + 1)..Len(text) : IsLetterOrNumber(text[j])}
                  next == IF rest = {} THEN Len(text) + 1
                          ELSE CHOOSE j \in rest : \A k \in rest : j <= k
              IN  <<cur>> \o SplitNonWord(text, next, <<>>)
         ELSE SplitNonWord(text, i + 1, Append(cur, text[i]))

\* text.split(' '): the pieces between single spaces, empty pieces kept.
RECURSIVE SplitSpace(_, _, _)
SplitSpace(text, i, cur) ==
    IF i > Len(text) THEN <<cur>>
    ELSE IF text[i] = " "
         THEN <<cur>> \o SplitSpace(text, i + 1, <<>>)
         ELSE SplitSpace(text, i + 1, Append(cur, text[i]))

\* text.replace(/\s+/g, ' '): every run of white space becomes one space.
RECURSIVE NormalizeSpaces(_)
NormalizeSpaces(text) ==
    IF text = <<>> THEN <<>>
    ELSE IF IsWhiteSpace(text[1])
         THEN IF Len(text) > 1 /\ IsWhiteSpace(text[2])
              THEN NormalizeSpaces(Tail(text))
              ELSE <<" ">> \o NormalizeSpaces(Tail(text))
         ELSE <<text[1]>> \o NormalizeSpaces(Tail(text))

\* text.split(/(?<![\p{L}\p{N}'-])(?![\p{L}\p{N}'-])|(?<=[^\p{L}\p{N}'-])(?=[\p{L}\p{N}'-])/u):
\* the pattern matches the empty string at q (0 < q < length) when the
\* character before q is not a word character and the one after it is not
\* (first alternative) or is (second alternative); split never cuts at 0 or
\* at the end.  A piece therefore ends after its first non-word character.
\* The pattern matches the empty string, so the empty text has no piece: [].
RECURSIVE StrictSplit(_, _, _)
StrictSplit(text, i, cur) ==
    IF text = <<>> THEN <<>>
    ELSE IF i > Len(text) THEN <<cur>>
    ELSE LET piece == Append(cur, text[i])
             lookbehind == ~IsStrictWordChar(text[i])
             lookahead  == i < Len(text)
                           /\ (  ~IsStrictWordChar(text[i + 1])
                              \/ IsStrictWordChar(text[i + 1]))
         IN  IF lookbehind /\ lookahead
             THEN <<piece>> \o StrictSplit(text, i + 1, <<>>)
             ELSE StrictSplit(text, i + 1, piece)

CaseFold(w, case_sensitive) == IF case_sensitive THEN w ELSE toLowerCase(w)

\* .map((w) => (this.case_sensitive ? w : w.toLowerCase()))
CaseFoldAll(ws, case_sensitive) == [i \in 1..Len(ws) |-> CaseFold(ws[i], case_sensitive)]

TrimAll(ws) == [i \in 1..Len(ws) |-> trim(ws[i])]

default_tokenizer(text, case_sensitive) ==
    CaseFoldAll(FilterBoolean(SplitNonWord(text, 1, <<>>)), case_sensitive)

strict_tokenizer(text, case_sensitive) ==
    CaseFoldAll(FilterBoolean(TrimAll(StrictSplit(NormalizeSpaces(text), 1, <<>>))),
                case_sensitive)

\* A caller-supplied tokenizer, (text) => text.split(' '): its output is used
\* as it is, empty tokens included.
custom_tokenizer(text) == SplitSpace(text, 1, <<>>)

normalize_word(word, case_sensitive) == CaseFold(word, case_sensitive)

(***************************************************************************)
(* Map<K, V>: a sequence of <<key, value>> entries in insertion order      *)
(***************************************************************************)

MapKeys(m) == [i \in 1..Len(m) |-> m[i][1]]

MapHas(m, k) == \E i \in 1..Len(m) : m[i][1] = k

MapGet(m, k) == m[CHOOSE i \in 1..Len(m) : m[i][1] = k][2]

\* Map.prototype.set: an existing key keeps its place, a new key goes last.
MapSet(m, k, v) ==
    IF MapHas(m, k)
    THEN [i \in 1..Len(m) |-> IF m[i][1] = k THEN <<k, v>> ELSE m[i]]
    ELSE Append(m, <<k, v>>)

\* [...new Set(xs)]: the first occurrence of every element, in order.
RECURSIVE Unique(_)
Unique(xs) ==
    IF xs = <<>> THEN <<>>
    ELSE LET init == Unique(SubSeq(xs, 1, Len(xs) - 1))
             x    == xs[Len(xs)]
         IN  IF \E i \in 1..Len(init) : init[i] = x THEN init ELSE Append(init, x)

\* array[idx] with a 0-based idx: undefined when idx is out of range.
At(array, idx) == IF idx \in 0..(Len(array) - 1) THEN array[idx + 1] ELSE Undefined

(***************************************************************************)
(* The SentenceFinder object                                               *)
(***************************************************************************)

\* The null of sorted_dictionary_cache: no array of keys.
Null == << <<"null">> >>

\* constructor: every structure empty, the options as given; min_match_count
\* defaults to 1 when the option is not given (<<>>; a given value is <<v>>).
SentenceFinder(options) ==
    [ collection              |-> <<>>,
      dictionary              |-> <<>>,
      word_frequency          |-> <<>>,
      index_map               |-> <<>>,
      sorted_dictionary_cache |-> Null,
      min_match_count         |-> IF options.min_match_count = <<>> THEN 1
                                  ELSE options.min_match_count[1],
      case_sensitive          |-> options.case_sensitive,
      tokenizer               |-> options.tokenizer ]

\* this.tokenizer(text): the tokenizer chosen at construction, which reads
\* the case_sensitive flag of the finder that owns it.
tokenizer(f, text) ==
    CASE f.tokenizer = "default" -> default_tokenizer(text, f.case_sensitive)
      [] f.tokenizer = "strict"  -> strict_tokenizer(text, f.case_sensitive)
      [] f.tokenizer = "custom"  -> custom_tokenizer(text)

\* this.tokenizer(text).map(this.normalize_word)
NormalizedTokens(f, text) ==
    LET ws == tokenizer(f, text)
    IN  [i \in 1..Len(ws) |-> normalize_word(ws[i], f.case_sensitive)]

\* IndexWord with the word stored as the tokenizer gave it, not normalized.
IndexWord_KeyNotNormalized(f, word, i) ==
    LET list == IF MapHas(f.dictionary, word) THEN MapGet(f.dictionary, word) ELSE <<>>
        freq == IF MapHas(f.word_frequency, word)
                THEN MapGet(f.word_frequency, word) ELSE 0
    IN  [f EXCEPT !.dictionary     = MapSet(f.dictionary, word, Append(list, i)),
                  !.word_frequency = MapSet(f.word_frequency, word, freq + 1)]

\* The body of init's inner loop for one word of sentence i.
IndexWord(f, word, i) ==
    LET key_word == normalize_word(word, f.case_sensitive)
        list     == IF MapHas(f.dictionary, key_word)
                    THEN MapGet(f.dictionary, key_word) ELSE <<>>
        freq     == IF MapHas(f.word_frequency, key_word)
                    THEN MapGet(f.word_frequency, key_word) ELSE 0
    IN  [f EXCEPT !.dictionary     = MapSet(f.dictionary, key_word, Append(list, i)),
                  !.word_frequency = MapSet(f.word_frequency, key_word, freq + 1)]

RECURSIVE IndexWords(_, _, _)
IndexWords(f, words, i) ==
    IF words = <<>> THEN f
    ELSE IndexWords(IndexWord(f, Head(words), i), Tail(words), i)

\* init's outer loop from sentence i (0-based) on.
RECURSIVE IndexSentences(_, _, _)
IndexSentences(f, input, i) ==
    IF i >= Len(input) THEN f
    ELSE LET g == [f EXCEPT !.index_map = (input[i + 1] :> i) @@ f.index_map]
         IN  IndexSentences(IndexWords(g, tokenizer(f, input[i + 1]), i), input, i + 1)

\* init that does not clear the dictionary.
init_KeepsDictionary(f, input) ==
    IndexSentences([f EXCEPT !.collection              = input,
                             !.word_frequency          = <<>>,
                             !.index_map               = <<>>,
                             !.sorted_dictionary_cache = Null],
                   input, 0)

\* init(input) for an array input.
init(f, input) ==
    IndexSentences([f EXCEPT !.collection              = input,
                             !.dictionary              = <<>>,
                             !.word_frequency          = <<>>,
                             !.index_map               = <<>>,
                             !.sorted_dictionary_cache = Null],
                   input, 0)

\* The position (1-based) of the first element of input that is not a string.
FirstNonString(input) ==
    CHOOSE k \in 1..Len(input) :
        input[k] = Undefined /\ \A j \in 1..(k - 1) : input[j] # Undefined

\* init(input) for an array that holds an element that is not a string: the
\* finder as the TypeError of this.tokenizer(input[i]) leaves it.  The
\* structures were cleared, the collection replaced, the elements before i
\* indexed, and index_map.set(input[i], i) has run.
initThrowing(f, input) ==
    LET k == FirstNonString(input)
        g == IndexSentences([f EXCEPT !.collection              = input,
                                      !.dictionary              = <<>>,
                                      !.word_frequency          = <<>>,
                                      !.index_map               = <<>>,
                                      !.sorted_dictionary_cache = Null],
                            SubSeq(input, 1, k - 1), 0)
    IN  [g EXCEPT !.index_map = (input[k] :> (k - 1)) @@ g.index_map]

\* reset that does not clear the dictionary.
reset_KeepsDictionary(f) ==
    [f EXCEPT !.collection              = <<>>,
              !.word_frequency          = <<>>,
              !.index_map               = <<>>,
              !.sorted_dictionary_cache = Null]

\* reset()
reset(f) ==
    [f EXCEPT !.collection              = <<>>,
              !.dictionary              = <<>>,
              !.word_frequency          = <<>>,
              !.index_map               = <<>>,
              !.sorted_dictionary_cache = Null]

(***************************************************************************)
(* merge                                                                   *)
(***************************************************************************)

\* newSentences that takes every source sentence, duplicate or not.
newSentences_All(f, finder, deduplicate) == finder.collection

\* newSentences: with deduplicate, finder.collection without the texts that
\* this.collection already holds; otherwise finder.collection itself.
newSentences(f, finder, deduplicate) ==
    IF deduplicate
    THEN SelectSeq(finder.collection,
                   LAMBDA s : ~(\E i \in 1..Len(f.collection) : f.collection[i] = s))
    ELSE finder.collection

\* indexes.filter(idx => !deduplicate || newSentences.includes(finder.collection[idx]))
\*        .map(idx => idx + offset)
adjusted_indexes(f, finder, deduplicate, indexes) ==
    LET offset == Len(f.collection)
        new    == newSentences(f, finder, deduplicate)
        kept   == SelectSeq(indexes,
                    LAMBDA idx : ~deduplicate
                                 \/ \E j \in 1..Len(new) : new[j] = At(finder.collection, idx))
    IN  [k \in 1..Len(kept) |-> kept[k] + offset]

\* The loop over finder.dictionary.entries(), from entry n on.
RECURSIVE MergeDictionary(_, _, _, _, _)
MergeDictionary(dictionary, f, finder, deduplicate, n) ==
    IF n > Len(finder.dictionary) THEN dictionary
    ELSE LET word     == finder.dictionary[n][1]
             adjusted == adjusted_indexes(f, finder, deduplicate, finder.dictionary[n][2])
             merged   == IF MapHas(dictionary, word)
                         THEN Unique(MapGet(dictionary, word) \o adjusted)
                         ELSE adjusted
         IN  MergeDictionary(MapSet(dictionary, word, merged), f, finder, deduplicate, n + 1)

\* for (const s of newSentences) finder.tokenizer(s), inside the loop over
\* finder.word_frequency.entries(): with deduplicate the tokenizer is called on
\* every new sentence as soon as the source has one counted word, and the call
\* throws a TypeError for a new sentence that is not a string.
mergeThrows(f, finder, deduplicate) ==
    LET new == newSentences(f, finder, deduplicate)
    IN  /\ deduplicate
        /\ finder.word_frequency # <<>>
        /\ \E j \in 1..Len(new) : new[j] = Undefined

\* addFreq for one word, when every new sentence is a string (mergeThrows is
\* the other case): with deduplicate, the number of new sentences whose tokens
\* (finder's tokenizer, this finder's normalization) include the word;
\* otherwise the source's count.
addFreq(f, finder, deduplicate, word, freq) ==
    IF deduplicate
    THEN LET new == newSentences(f, finder, deduplicate)
         IN  Cardinality({j \in 1..Len(new) :
                 LET ts == tokenizer(finder, new[j])
                 IN  \E k \in 1..Len(ts) : normalize_word(ts[k], f.case_sensitive) = word})
    ELSE freq

\* The loop over finder.word_frequency.entries(), from entry n on.
RECURSIVE MergeFrequency(_, _, _, _, _)
MergeFrequency(word_frequency, f, finder, deduplicate, n) ==
    IF n > Len(finder.word_frequency) THEN word_frequency
    ELSE LET word == finder.word_frequency[n][1]
             old  == IF MapHas(word_frequency, word) THEN MapGet(word_frequency, word) ELSE 0
             add  == addFreq(f, finder, deduplicate, word, finder.word_frequency[n][2])
         IN  MergeFrequency(MapSet(word_frequency, word, old + add),
                            f, finder, deduplicate, n + 1)

\* newSentences.forEach((sentence, i) => this.index_map.set(sentence, offset + i))
RECURSIVE MergeIndexMap(_, _, _, _)
MergeIndexMap(index_map, new, offset, i) ==
    IF i >= Len(new) THEN index_map
    ELSE MergeIndexMap((new[i + 1] :> (offset + i)) @@ index_map, new, offset, i + 1)

\* The finder as a merge that throws in the frequency loop leaves it: the loop
\* over finder.dictionary.entries() has run; the throw comes while the first
\* word is counted, before any word_frequency.set, and before index_map, the
\* collection and the suggestion cache are touched.
mergeThrowing(f, finder, deduplicate) ==
    [f EXCEPT !.dictionary = MergeDictionary(f.dictionary, f, finder, deduplicate, 1)]

\* merge that appends the whole source collection, whatever newSentences is.
merge_AppendsSource(f, finder, deduplicate) ==
    LET offset == Len(f.collection)
        new    == newSentences(f, finder, deduplicate)
    IN  IF mergeThrows(f, finder, deduplicate)
        THEN mergeThrowing(f, finder, deduplicate)
        ELSE [f EXCEPT
           !.dictionary     = MergeDictionary(f.dictionary, f, finder, deduplicate, 1),
           !.word_frequency = MergeFrequency(f.word_frequency, f, finder, deduplicate, 1),
           !.index_map      = MergeIndexMap(f.index_map, new, offset, 0),
           !.collection     = f.collection \o finder.collection,
           !.sorted_dictionary_cache = Null]

\* merge(finder, {deduplicate}) for a finder that is a SentenceFinder: this
\* finder when the call is over, whether it returned or threw a TypeError in
\* the frequency loop.
merge(f, finder, deduplicate) ==
    LET offset == Len(f.collection)
        new    == newSentences(f, finder, deduplicate)
    IN  IF mergeThrows(f, finder, deduplicate)
        THEN mergeThrowing(f, finder, deduplicate)
        ELSE [f EXCEPT
           !.dictionary     = MergeDictionary(f.dictionary, f, finder, deduplicate, 1),
           !.word_frequency = MergeFrequency(f.word_frequency, f, finder, deduplicate, 1),
           !.index_map      = MergeIndexMap(f.index_map, new, offset, 0),
           !.collection     = f.collection \o new,
           !.sorted_dictionary_cache = Null]

\* this.emit('merge', finder.collection.length), the last statement of merge:
\* the notification, and the finder as a listener sees it when notified.
\* finder.collection is read after this.collection has been replaced (line
\* 363): when finder is this finder itself (isThis), the count is that of the
\* collection as the merge leaves it; for another object it is the count of
\* the source, which the merge does not change.
MergeNotification(f, finder, deduplicate, isThis) ==
    LET after == merge(f, finder, deduplicate)
    IN  [ emitted  |-> << <<"merge", Len(IF isThis THEN after.collection
                                         ELSE finder.collection)>> >>,
          observed |-> after ]

\* What a caller of merge(finder, {deduplicate}) sees: the TypeError and no
\* notification, or the notification of a merge that returns.
MergeOutcome(f, finder, deduplicate, isThis) ==
    IF mergeThrows(f, finder, deduplicate)
    THEN [threw |-> "TypeError"]
    ELSE MergeNotification(f, finder, deduplicate, isThis)

(***************************************************************************)
(* suggest                                                                 *)
(***************************************************************************)

\* Array.prototype.sort() of strings: insertion of each key into the sorted
\* prefix, by code unit order.
RECURSIVE SortStrings(_)
SortStrings(xs) ==
    IF xs = <<>> THEN <<>>
    ELSE LET sorted == SortStrings(SubSeq(xs, 1, Len(xs) - 1))
             x      == xs[Len(xs)]
             before == SelectSeq(sorted, LAMBDA y : ~StrLess(x, y))
             after  == SelectSeq(sorted, LAMBDA y : StrLess(x, y))
         IN  before \o <<x>> \o after

\* The cache suggest reads: the one kept, or the sorted keys when there is none.
sorted_words(f) ==
    IF f.sorted_dictionary_cache = Null
    THEN SortStrings(MapKeys(f.dictionary))
    ELSE f.sorted_dictionary_cache

\* while (start < end) { mid = floor((start + end) / 2); ... }: the lower bound.
RECURSIVE BinarySearch(_, _, _, _)
BinarySearch(words, norm_prefix, start, end) ==
    IF ~(start < end) THEN start
    ELSE LET mid == (start + end) \div 2
         IN  IF StrLess(words[mid + 1], norm_prefix)
             THEN BinarySearch(words, norm_prefix, mid + 1, end)
             ELSE BinarySearch(words, norm_prefix, start, mid)

\* while (start < length && words[start].startsWith(norm_prefix)) push, start++
RECURSIVE CollectSuggestions(_, _, _)
CollectSuggestions(words, norm_prefix, start) ==
    IF start < Len(words) /\ startsWith(words[start + 1], norm_prefix)
    THEN <<words[start + 1]>> \o CollectSuggestions(words, norm_prefix, start + 1)
    ELSE <<>>

\* suggest(prefix).suggestions; an empty array for a blank prefix.
suggest(f, prefix) ==
    IF trim(prefix) = <<>> THEN <<>>
    ELSE LET norm_prefix == normalize_word(prefix, f.case_sensitive)
             words       == sorted_words(f)
         IN  CollectSuggestions(words, norm_prefix,
                                BinarySearch(words, norm_prefix, 0, Len(words)))

\* The finder after suggest(prefix): the cache is filled unless the prefix is blank.
AfterSuggest(f, prefix) ==
    IF trim(prefix) = <<>> THEN f
    ELSE [f EXCEPT !.sorted_dictionary_cache = sorted_words(f)]

(***************************************************************************)
(* search                                                                  *)
(***************************************************************************)

\* Number.POSITIVE_INFINITY, the earliest-match position before any match.
POSITIVE_INFINITY == 1000000

\* The sentence indexes one query token visits, in the order the loops visit
\* them: partial mode walks every dictionary entry whose key includes the
\* token; otherwise the token's own entry when it is a key, and else every
\* entry whose key starts with the token.
RECURSIVE ScanEntries(_, _, _, _)
ScanEntries(dictionary, token, partial, n) ==
    IF n > Len(dictionary) THEN <<>>
    ELSE LET dictWord == dictionary[n][1]
             hit      == IF partial THEN includes(dictWord, token)
                                    ELSE startsWith(dictWord, token)
         IN  (IF hit THEN dictionary[n][2] ELSE <<>>)
             \o ScanEntries(dictionary, token, partial, n + 1)

\* TokenIndexes with the prefix matches added to the token's own entry.
TokenIndexes_AlwaysPrefix(f, token, partial) ==
    ScanEntries(f.dictionary, token, partial, 1)

\* TokenIndexes without the prefix fallback for a token that is not a key.
TokenIndexes_NoFallback(f, token, partial) ==
    IF partial THEN ScanEntries(f.dictionary, token, TRUE, 1)
    ELSE IF MapHas(f.dictionary, token) THEN MapGet(f.dictionary, token)
    ELSE <<>>

TokenIndexes(f, token, partial) ==
    IF partial THEN ScanEntries(f.dictionary, token, TRUE, 1)
    ELSE IF MapHas(f.dictionary, token) THEN MapGet(f.dictionary, token)
    ELSE ScanEntries(f.dictionary, token, FALSE, 1)

\* if (!sentence_matches.has(idx)) set(idx, new Set()); get(idx).add(token)
RECURSIVE AddMatches(_, _, _)
AddMatches(sentence_matches, indexes, token) ==
    IF indexes = <<>> THEN sentence_matches
    ELSE LET idx == Head(indexes)
             old == IF MapHas(sentence_matches, idx)
                    THEN MapGet(sentence_matches, idx) ELSE {}
         IN  AddMatches(MapSet(sentence_matches, idx, old \cup {token}),
                        Tail(indexes), token)

\* for (const token of tokens) { ... }: the match accumulator after the loop.
RECURSIVE MatchTokens(_, _, _, _)
MatchTokens(sentence_matches, f, tokens, partial) ==
    IF tokens = <<>> THEN sentence_matches
    ELSE MatchTokens(AddMatches(sentence_matches,
                                TokenIndexes(f, Head(tokens), partial), Head(tokens)),
                     f, Tail(tokens), partial)

\* The sentences of the entries matched by at least min_match distinct tokens.
FilterMatches(f, sentence_matches, min_match) ==
    LET kept == SelectSeq(sentence_matches, LAMBDA e : Cardinality(e[2]) >= min_match)
    IN  [k \in 1..Len(kept) |-> At(f.collection, kept[k][1])]

\* The award of one occurrence of token found in the sentence token st.
Award(st, token) ==
    IF st = token THEN 10
    ELSE IF startsWith(st, token) THEN 2
    ELSE 1

\* localOcc that awards a sentence token once, however often it holds the token.
localOcc_Once(st, token, pos) ==
    IF indexOf(st, token, pos) = -1 THEN 0 ELSE Award(st, token)

\* while (true) { found = st.indexOf(token, pos); if (found === -1) break; ... }
\* for a non-empty token: localOcc at the end of the loop entered at pos.
RECURSIVE localOcc(_, _, _)
localOcc(st, token, pos) ==
    LET found == indexOf(st, token, pos)
    IN  IF found = -1 THEN 0
        ELSE Award(st, token) + localOcc(st, token, found + Len(token))

\* occ for one query token and one sentence: the sum of localOcc over the
\* sentence's tokens.
RECURSIVE occ(_, _, _)
occ(sentenceTokens, token, tI) ==
    IF tI >= Len(sentenceTokens) THEN 0
    ELSE localOcc(sentenceTokens[tI + 1], token, 0) + occ(sentenceTokens, token, tI + 1)

\* The smallest tI with localOcc > 0 for the token, or POSITIVE_INFINITY.
earliest(sentenceTokens, token) ==
    LET hit == {tI \in 0..(Len(sentenceTokens) - 1) :
                   localOcc(sentenceTokens[tI + 1], token, 0) > 0}
    IN  IF hit = {} THEN POSITIVE_INFINITY
        ELSE CHOOSE tI \in hit : \A u \in hit : tI <= u

Min(a, b) == IF a <= b THEN a ELSE b

\* scoreMap.get(idx) after the scoring loops.
RECURSIVE scoreOf(_, _, _)
scoreOf(f, tokens, idx) ==
    IF tokens = <<>> THEN 0
    ELSE occ(NormalizedTokens(f, At(f.collection, idx)), Head(tokens), 0)
         + scoreOf(f, Tail(tokens), idx)

\* earliestMatchMap.get(idx) after the scoring loops.
RECURSIVE earliestOf(_, _, _)
earliestOf(f, tokens, idx) ==
    IF tokens = <<>> THEN POSITIVE_INFINITY
    ELSE Min(earliest(NormalizedTokens(f, At(f.collection, idx)), Head(tokens)),
             earliestOf(f, Tail(tokens), idx))

\* How the scoring loops end.  They visit the pairs (token, idx) token by
\* token: tokenizing an undefined sentence throws a TypeError, and an empty
\* token never leaves the occurrence loop of a sentence that has a token
\* (indexOf finds it at pos, and pos does not advance).
RECURSIVE ScoringOutcome(_, _, _, _)
ScoringOutcome(f, tokens, sentence_matches, n) ==
    IF tokens = <<>> THEN "returns"
    ELSE IF n > Len(sentence_matches)
         THEN ScoringOutcome(f, Tail(tokens), sentence_matches, 1)
    ELSE LET sentence == At(f.collection, sentence_matches[n][1])
         IN  IF sentence = Undefined THEN "TypeError"
             ELSE IF Head(tokens) = <<>> /\ NormalizedTokens(f, sentence) # <<>>
                  THEN "diverges"
             ELSE ScoringOutcome(f, tokens, sentence_matches, n + 1)

\* this.index_map.get(text), with -1 standing for undefined.
IndexOfText(f, text) ==
    IF text \in DOMAIN f.index_map THEN f.index_map[text] ELSE -1

\* scoreMap.get(this.index_map.get(text)) ?? 0
ScoreOfText(f, tokens, sentence_matches, text) ==
    IF MapHas(sentence_matches, IndexOfText(f, text))
    THEN scoreOf(f, tokens, IndexOfText(f, text)) ELSE 0

\* earliestMatchMap.get(this.index_map.get(text)) ?? Number.POSITIVE_INFINITY
EarliestOfText(f, tokens, sentence_matches, text) ==
    IF MapHas(sentence_matches, IndexOfText(f, text))
    THEN earliestOf(f, tokens, IndexOfText(f, text)) ELSE POSITIVE_INFINITY

\* Compare without the tie-break on the earliest match.
Compare_NoEarliest(f, tokens, sentence_matches, a, b) ==
    LET aScore == ScoreOfText(f, tokens, sentence_matches, a)
        bScore == ScoreOfText(f, tokens, sentence_matches, b)
    IN  IF bScore # aScore THEN bScore - aScore
        ELSE IndexOfText(f, a) - IndexOfText(f, b)

\* The comparator of results.sort: negative when a goes before b.
Compare(f, tokens, sentence_matches, a, b) ==
    LET aScore    == ScoreOfText(f, tokens, sentence_matches, a)
        bScore    == ScoreOfText(f, tokens, sentence_matches, b)
        aEarliest == EarliestOfText(f, tokens, sentence_matches, a)
        bEarliest == EarliestOfText(f, tokens, sentence_matches, b)
        aLast     == IF IndexOfText(f, a) = -1 THEN 0 ELSE IndexOfText(f, a)
        bLast     == IF IndexOfText(f, b) = -1 THEN 0 ELSE IndexOfText(f, b)
    IN  IF bScore # aScore THEN bScore - aScore
        ELSE IF aEarliest # bEarliest THEN aEarliest - bEarliest
        ELSE aLast - bLast

\* Array.prototype.sort(comparator), a stable sort: each element is inserted
\* after the elements that do not compare greater than it.
RECURSIVE SortResults(_, _, _, _)
SortResults(f, tokens, sentence_matches, results) ==
    IF results = <<>> THEN <<>>
    ELSE LET sorted == SortResults(f, tokens, sentence_matches,
                                   SubSeq(results, 1, Len(results) - 1))
             x      == results[Len(results)]
             before == SelectSeq(sorted,
                         LAMBDA y : Compare(f, tokens, sentence_matches, y, x) <= 0)
             after  == SelectSeq(sorted,
                         LAMBDA y : Compare(f, tokens, sentence_matches, y, x) > 0)
         IN  before \o <<x>> \o after

\* The outcome of a call that has not happened: every field at its empty
\* value.  emitted lists the notifications of the call, observed is the finder
\* as the listeners of merge see it.
NoOutcome ==
    [ results          |-> <<>>,
      threw            |-> "none",
      emitted          |-> <<>>,
      observed         |-> <<>>,
      tokens           |-> <<>>,
      sentence_matches |-> <<>>,
      scoreMap         |-> <<>>,
      earliestMatchMap |-> <<>> ]

\* min_match that ignores the option of the call.
min_match_InstanceOnly(f, options) == f.min_match_count

\* options?.min_match_count ?? this.min_match_count; an option that is not
\* given is the empty sequence, one that is given is <<value>>.
min_match(f, options) ==
    IF options.min_match_count = <<>> THEN f.min_match_count
    ELSE options.min_match_count[1]

\* search(search_input, {ranked, min_match_count, partial}): what the call
\* returns and emits, with the locals the ranking rules are stated in.
search(f, search_input, options) ==
    IF trim(search_input) = <<>> THEN NoOutcome
    ELSE
    LET ranked    == options.ranked
        partial   == options.partial
        tokens    == NormalizedTokens(f, search_input)
    IN  IF Len(tokens) = 0 THEN NoOutcome
        ELSE
        LET sentence_matches == MatchTokens(<<>>, f, tokens, partial)
            results  == FilterMatches(f, sentence_matches, min_match(f, options))
            found    == [NoOutcome EXCEPT !.tokens = tokens,
                                          !.sentence_matches = sentence_matches]
            scoring  == ScoringOutcome(f, tokens, sentence_matches, 1)
        IN  IF ~ranked
            THEN [found EXCEPT !.results = results,
                               !.emitted = << <<"search", Len(results)>> >>]
            ELSE IF scoring # "returns"
            THEN [found EXCEPT !.threw = scoring]
            ELSE LET sorted == SortResults(f, tokens, sentence_matches, results)
                 IN  [found EXCEPT
                        !.results  = sorted,
                        !.emitted  = << <<"search", Len(sorted)>> >>,
                        !.scoreMap =
                            [n \in 1..Len(sentence_matches) |->
                               <<sentence_matches[n][1],
                                 scoreOf(f, tokens, sentence_matches[n][1])>>],
                        !.earliestMatchMap =
                            [n \in 1..Len(sentence_matches) |->
                               <<sentence_matches[n][1],
                                 earliestOf(f, tokens, sentence_matches[n][1])>>]]

(***************************************************************************)
(* Inputs                                                                  *)
(***************************************************************************)

TheQuickBrownFox ==
    <<"T","h","e"," ","q","u","i","c","k"," ","b","r","o","w","n"," ","f","o","x">>
QuickFoxesRun == <<"Q","u","i","c","k"," ","f","o","x","e","s"," ","r","u","n">>
Fox           == <<"f","o","x">>
FoxRun        == <<"f","o","x"," ","r","u","n">>
FoxHiTech     == <<"F","o","x",","," "," ","h","i","-","t","e","c","h">>
FoxFoxfoxFox  == <<"f","o","x"," ","f","o","x","f","o","x"," ","f","o","x">>

\* An array init is called with that holds an element that is not a string.
NonTextInputs == { <<Fox, Undefined, FoxRun>> }

\* The arrays init is called with and the source finders are built from.
Inputs ==
    { <<TheQuickBrownFox, QuickFoxesRun>>,
      <<Fox, FoxRun, Fox>>,
      <<Fox, FoxHiTech>>,
      <<FoxFoxfoxFox>> }

\* The constructor options in use: the defaults, case-sensitive matching, the
\* strict tokenizer with a minimum of two matches, and a caller's tokenizer.
Configs ==
    { [min_match_count |-> <<>>,  case_sensitive |-> FALSE, tokenizer |-> "default"],
      [min_match_count |-> <<>>,  case_sensitive |-> TRUE,  tokenizer |-> "default"],
      [min_match_count |-> <<2>>, case_sensitive |-> FALSE, tokenizer |-> "strict"],
      [min_match_count |-> <<>>,  case_sensitive |-> FALSE, tokenizer |-> "custom"] }

Queries ==
    { <<"f","o","x">>,
      <<"f","o">>,
      <<"F","o","x"," ","r","u","n"," ","f","o","x">>,
      <<"o","x"," "," ","h","i"," ","o","x">>,
      <<" ">> }

SearchOptions ==
    [ranked : BOOLEAN, partial : BOOLEAN, min_match_count : {<<>>, <<1>>, <<2>>}]

Prefixes == { <<"f">>, <<"f","o","x">>, <<"Q">>, <<"h","i">>, <<" ">> }

\* The finders merge is called with: a finder of any of the configurations,
\* after an init that returned or after an init that threw on an element that
\* is not a string.
Sources ==
    { init(SentenceFinder(options), input) : options \in Configs, input \in Inputs }
    \cup
    { initThrowing(SentenceFinder(options), input) :
          options \in Configs, input \in NonTextInputs }

\* The longest collection a merge may build.
MaxSentences == 3

(***************************************************************************)
(* The state machine                                                       *)
(*                                                                         *)
(* The finder is single-threaded and synchronous: a call runs to its end   *)
(* before the next one starts.  Each call is one step, which leaves in     *)
(* `last` the call's arguments and outcome (return value, error,           *)
(* notifications, and the locals of search); Return is the caller dropping *)
(* them before its next call.                                              *)
(***************************************************************************)

VARIABLES
    finder,   \* the SentenceFinder under test
    last,     \* the call that has just run: its arguments and its outcome
    before    \* the finder as it was when that call started

vars == <<finder, last, before>>

Call(op, args, outcome) == [op |-> op, args |-> args] @@ outcome

Idle == Call("none", <<>>, NoOutcome)

Init ==
    /\ \E options \in Configs : finder = SentenceFinder(options)
    /\ last = Idle
    /\ before = finder

\* finder.init(input)
InitCall ==
    \E input \in Inputs :
        /\ last = Idle
        /\ before' = finder
        /\ finder' = init(finder, input)
        /\ last' = Call("init", [isArray |-> TRUE, input |-> input],
                        [NoOutcome EXCEPT !.emitted = << <<"init", Len(input)>> >>])

\* finder.init(x) for an x that is not an array: the call throws at once.
InitThrows ==
    /\ last = Idle
    /\ before' = finder
    /\ finder' = finder
    /\ last' = Call("init", [isArray |-> FALSE, input |-> <<>>],
                    [NoOutcome EXCEPT !.threw = "Error"])

\* finder.init(input) for an array with an element that is not a string: the
\* call throws a TypeError from inside its loop.
InitTypeError ==
    \E input \in NonTextInputs :
        /\ last = Idle
        /\ before' = finder
        /\ finder' = initThrowing(finder, input)
        /\ last' = Call("init", [isArray |-> TRUE, input |-> input],
                        [NoOutcome EXCEPT !.threw = "TypeError"])

\* finder.merge(source, {deduplicate}) for a source that is another
\* SentenceFinder object than this finder (it may hold the same contents).
MergeCall ==
    \E source \in Sources, deduplicate \in BOOLEAN :
        /\ last = Idle
        /\ before' = finder
        /\ Len(merge(finder, source, deduplicate).collection) <= MaxSentences
        /\ finder' = merge(finder, source, deduplicate)
        /\ last' = Call("merge",
                        [isSentenceFinder |-> TRUE, isThis |-> FALSE,
                         finder |-> source, deduplicate |-> deduplicate],
                        MergeOutcome(finder, source, deduplicate, FALSE) @@ NoOutcome)

\* finder.merge(finder, {deduplicate}): the finder merged into itself.  The
\* source is this object: its collection, dictionary and frequency table are
\* the ones the call reads and updates.  The loops set only keys that exist,
\* so each entry is visited once, with the value it had before the call.
MergeSelfCall ==
    \E deduplicate \in BOOLEAN :
        /\ last = Idle
        /\ before' = finder
        /\ Len(merge(finder, finder, deduplicate).collection) <= MaxSentences
        /\ finder' = merge(finder, finder, deduplicate)
        /\ last' = Call("merge",
                        [isSentenceFinder |-> TRUE, isThis |-> TRUE,
                         finder |-> finder, deduplicate |-> deduplicate],
                        MergeOutcome(finder, finder, deduplicate, TRUE) @@ NoOutcome)

\* finder.merge(x) for an x that is not a SentenceFinder: the call throws at once.
MergeThrows ==
    /\ last = Idle
    /\ before' = finder
    /\ finder' = finder
    /\ last' = Call("merge",
                    [isSentenceFinder |-> FALSE, isThis |-> FALSE,
                     finder |-> <<>>, deduplicate |-> FALSE],
                    [NoOutcome EXCEPT !.threw = "Error"])

\* finder.reset()
ResetCall ==
    /\ last = Idle
    /\ before' = finder
    /\ finder' = reset(finder)
    /\ last' = Call("reset", <<>>, [NoOutcome EXCEPT !.emitted = << <<"reset">> >>])

\* finder.search(search_input, options)
SearchCall ==
    \E search_input \in Queries, options \in SearchOptions :
        /\ last = Idle
        /\ before' = finder
        /\ finder' = finder
        /\ last' = Call("search", [search_input |-> search_input, options |-> options],
                        search(finder, search_input, options))

\* finder.suggest(prefix)
SuggestCall ==
    \E prefix \in Prefixes :
        LET suggestions == suggest(finder, prefix)
        IN  /\ last = Idle
            /\ before' = finder
            /\ finder' = AfterSuggest(finder, prefix)
            /\ last' = Call("suggest", prefix,
                            [NoOutcome EXCEPT
                               !.results = suggestions,
                               !.emitted = IF trim(prefix) = <<>> THEN <<>>
                                           ELSE << <<"suggest", Len(suggestions)>> >>])

\* The call has returned (or thrown, or never returns) and the caller goes on.
Return ==
    /\ last # Idle
    /\ last.threw # "diverges"
    /\ finder' = finder
    /\ last' = Idle
    /\ before' = finder

Next ==
    \/ InitCall
    \/ InitThrows
    \/ InitTypeError
    \/ MergeCall
    \/ MergeSelfCall
    \/ MergeThrows
    \/ ResetCall
    \/ SearchCall
    \/ SuggestCall
    \/ Return

Spec == Init /\ [][Next]_vars

(***************************************************************************)
(* Properties                                                              *)
(***************************************************************************)

ToSet(xs) == {xs[i] : i \in 1..Len(xs)}

\* The call that has just run is a merge of a SentenceFinder.
Merged == last.op = "merge" /\ last.args.isSentenceFinder

\* That merge has returned: it did not throw.
MergeReturned == Merged /\ last.threw = "none"

\* C1: in every reachable state, every sentence index stored in any
\* dictionary entry is a valid position of the collection:
\* 0 <= index < collection.length.
C1_IndexesValid ==
    \A n \in 1..Len(finder.dictionary) :
        \A idx \in ToSet(finder.dictionary[n][2]) :
            0 <= idx /\ idx < Len(finder.collection)

\* The 0-based positions, in the source collection, of the sentences a
\* deduplicating merge into f retains: those whose text f does not hold.
RetainedSourceIndexes(f, source) ==
    {j \in 0..(Len(source.collection) - 1) :
        \A i \in 1..Len(f.collection) : f.collection[i] # source.collection[j + 1]}

\* C2: a step merge(other, {deduplicate: true}) leaves every retained source
\* sentence indexed under exactly the position it takes in the receiving
\* collection, offset + (number of retained source sentences before it): for
\* every word of the source dictionary, the positions the merge adds to the
\* word's list are exactly the new positions of the retained sentences the
\* source lists under that word, and each new position holds its sentence.
C2_DeduplicatedIndexesCompacted ==
    [][ (MergeReturned' /\ last'.args.deduplicate) =>
          LET source   == last'.args.finder
              offset   == Len(finder.collection)
              retained == RetainedSourceIndexes(finder, source)
              position(j) == offset + Cardinality({r \in retained : r < j})
          IN  /\ \A j \in retained :
                    At(finder'.collection, position(j)) = source.collection[j + 1]
              /\ \A n \in 1..Len(source.dictionary) :
                    LET word == source.dictionary[n][1]
                    IN  /\ MapHas(finder'.dictionary, word)
                        /\ {idx \in ToSet(MapGet(finder'.dictionary, word)) : idx >= offset}
                             = {position(j) : j \in retained \cap ToSet(source.dictionary[n][2])}
      ]_vars

\* C3: in every reachable state the frequency table and the dictionary have
\* the same tokens, and each token's count is the length of its dictionary
\* list, repeated sentence indexes counted.
C3_FrequencyIsListLength ==
    /\ ToSet(MapKeys(finder.word_frequency)) = ToSet(MapKeys(finder.dictionary))
    /\ \A n \in 1..Len(finder.dictionary) :
          MapGet(finder.word_frequency, finder.dictionary[n][1])
             = Len(finder.dictionary[n][2])

\* The options of a plain search with a minimum of one match.
MinOne == [ranked |-> FALSE, partial |-> FALSE, min_match_count |-> <<1>>]

\* The call that has just run is init with an array, and it returned.
Initialized == last.op = "init" /\ last.args.isArray /\ last.threw = "none"

\* A token the finder's own tokenizer and normalization map to itself
\* (normalized), and that is not blank.
SearchableToken(f, t) ==
    /\ trim(t) # <<>>
    /\ NormalizedTokens(f, t) = <<normalize_word(t, f.case_sensitive)>>

\* C4 as stated: after init(S), for every sentence s of S and every token t
\* of s, search(t, {min_match_count: 1}) returns a list that contains s.
C4_EveryTokenFindsSentence ==
    Initialized =>
        \A i \in 1..Len(finder.collection) :
            \A t \in ToSet(tokenizer(finder, finder.collection[i])) :
                finder.collection[i] \in ToSet(search(finder, t, MinOne).results)

\* C4, amended: after init(S), for every sentence s of S and every token t of
\* s that is not blank and that the finder's tokenizer and normalization map
\* to the single token normalize(t), search(t, {min_match_count: 1}) returns
\* a list that contains s.
C4_SearchableTokenFindsSentence ==
    Initialized =>
        \A i \in 1..Len(finder.collection) :
            \A t \in ToSet(tokenizer(finder, finder.collection[i])) :
                SearchableToken(finder, t) =>
                    finder.collection[i] \in ToSet(search(finder, t, MinOne).results)

\* C4's case: init has indexed a sentence under a token whose normalized key
\* differs from the token, and the search for the token returns the sentence.
C4_Witness ==
    /\ Initialized
    /\ \E i \in 1..Len(finder.collection) :
          \E t \in ToSet(tokenizer(finder, finder.collection[i])) :
              /\ SearchableToken(finder, t)
              /\ normalize_word(t, finder.case_sensitive) # t
              /\ finder.collection[i] \in ToSet(search(finder, t, MinOne).results)

\* The finder is as init(["The quick brown fox", "Quick foxes run"]) leaves it
\* (the suggestion cache apart) and the call that has just run is
\* search("fox") with an effective minimum of 1.
FoxSearched ==
    /\ last.op = "search"
    /\ last.args.search_input = Fox
    /\ min_match(finder, last.args.options) = 1
    /\ \E options \in Configs :
          [finder EXCEPT !.sorted_dictionary_cache = Null]
             = init(SentenceFinder(options), <<TheQuickBrownFox, QuickFoxesRun>>)

\* C5 as stated: in default (non-partial) mode that search returns both
\* sentences.
C5_FoxReturnsBoth ==
    (FoxSearched /\ ~last.args.options.partial) =>
        ToSet(last.results) = {TheQuickBrownFox, QuickFoxesRun}

\* C5, amended: in default (non-partial) mode that search returns only
\* "The quick brown fox", because "fox" is itself a dictionary key; with
\* partial: true it returns both sentences.
C5_FoxReturnsExactMatchOnly ==
    FoxSearched =>
        IF last.args.options.partial
        THEN Len(last.results) = 2
             /\ ToSet(last.results) = {TheQuickBrownFox, QuickFoxesRun}
        ELSE last.results = <<TheQuickBrownFox>>

C5_Witness ==
    /\ FoxSearched
    /\ ~last.args.options.partial
    /\ last.results = <<TheQuickBrownFox>>
    /\ MapHas(finder.dictionary, <<"f","o","x","e","s">>)

\* The sentence indexes listed under the dictionary keys in keys.
Listed(f, keys) ==
    UNION {ToSet(f.dictionary[n][2]) : n \in {m \in 1..Len(f.dictionary) :
                                                  f.dictionary[m][1] \in keys}}

\* The set of sentence indexes a query token contributes, as C6 states it.
Contribution(f, token, partial) ==
    LET keys == ToSet(MapKeys(f.dictionary))
    IN  IF partial THEN Listed(f, {k \in keys : includes(k, token)})
        ELSE IF token \in keys THEN Listed(f, {token})
        ELSE Listed(f, {k \in keys : startsWith(k, token)})

\* C6: after a search, every query token is recorded for exactly the
\* sentence indexes it contributes: with partial, those of every key that
\* contains the token; without, those of the token itself when it is a key,
\* and otherwise those of every key that starts with the token.
C6_TokenContributions ==
    last.op = "search" =>
        /\ \A t \in ToSet(last.tokens) :
              {last.sentence_matches[n][1] :
                  n \in {m \in 1..Len(last.sentence_matches) :
                            t \in last.sentence_matches[m][2]}}
                = Contribution(finder, t, last.args.options.partial)
        /\ \A n \in 1..Len(last.sentence_matches) :
              /\ last.sentence_matches[n][2] # {}
              /\ last.sentence_matches[n][2] \subseteq ToSet(last.tokens)

\* C6's case: a non-partial search in which one token is a key while a longer
\* key starts with it (no prefix match is added), and another token is not a
\* key and contributes by prefix.
C6_Witness ==
    /\ last.op = "search"
    /\ ~last.args.options.partial
    /\ \E t \in ToSet(last.tokens) :
          /\ MapHas(finder.dictionary, t)
          /\ \E k \in ToSet(MapKeys(finder.dictionary)) :
                k # t /\ startsWith(k, t)
                /\ ~(Listed(finder, {k}) \subseteq Contribution(finder, t, FALSE))
    /\ \E t \in ToSet(last.tokens) :
          /\ ~MapHas(finder.dictionary, t)
          /\ Contribution(finder, t, FALSE) # {}

\* The indexes matched by at least the effective minimum of distinct query
\* tokens.
Qualifying(f, tokens, options) ==
    {idx \in Listed(f, ToSet(MapKeys(f.dictionary))) :
        Cardinality({t \in ToSet(tokens) : idx \in Contribution(f, t, options.partial)})
           >= (IF options.min_match_count = <<>> THEN f.min_match_count
               ELSE options.min_match_count[1])}

\* C7: a search that returns, returns one element, collection[idx], for each
\* index idx matched by at least the effective minimum of distinct query
\* tokens, and nothing else: each such index once.
C7_MinMatchFilter ==
    (last.op = "search" /\ last.threw = "none") =>
        LET qualifying == Qualifying(finder, last.tokens, last.args.options)
        IN  /\ Len(last.results) = Cardinality(qualifying)
            /\ \E pi \in [1..Len(last.results) -> qualifying] :
                  /\ \A i, j \in 1..Len(last.results) : pi[i] = pi[j] => i = j
                  /\ \A i \in 1..Len(last.results) :
                        last.results[i] = At(finder.collection, pi[i])

\* C7's case: a query that repeats a token, with a per-call minimum of 2 that
\* overrides the instance's 1, returns some matched sentences and drops others.
C7_Witness ==
    /\ last.op = "search"
    /\ last.threw = "none"
    /\ last.args.options.min_match_count = <<2>>
    /\ finder.min_match_count = 1
    /\ Len(last.tokens) > Cardinality(ToSet(last.tokens))
    /\ last.results # <<>>
    /\ Len(last.results) < Len(last.sentence_matches)

\* The call that has just run is a ranked search that returned.
Ranked == last.op = "search" /\ last.args.options.ranked /\ last.threw = "none"

\* In the ranking of the search that has just run, index a goes before index
\* b: a higher score, or the same score and an earlier first match, or both
\* the same and a lower insertion index.
RankedBefore(a, b) ==
    LET aScore    == MapGet(last.scoreMap, a)
        bScore    == MapGet(last.scoreMap, b)
        aEarliest == MapGet(last.earliestMatchMap, a)
        bEarliest == MapGet(last.earliestMatchMap, b)
    IN  \/ aScore > bScore
        \/ aScore = bScore /\ aEarliest < bEarliest
        \/ aScore = bScore /\ aEarliest = bEarliest /\ a < b

\* The results of the search that has just run are its matched indexes, each
\* at most once, in ranking order.
InRankingOrder ==
    \E pi \in [1..Len(last.results) -> ToSet(MapKeys(last.sentence_matches))] :
        /\ \A i \in 1..Len(last.results) :
              last.results[i] = At(finder.collection, pi[i])
        /\ \A i, j \in 1..Len(last.results) : i < j => RankedBefore(pi[i], pi[j])

\* C8 as stated: for every collection and query, ranked results are ordered
\* by descending score, then ascending earliest-match position, then
\* ascending insertion index.
C8_RankedOrder == Ranked => InRankingOrder

DistinctTexts(collection) ==
    \A i, j \in 1..Len(collection) : collection[i] = collection[j] => i = j

\* C8, amended: for every collection that holds no text twice, ranked results
\* are ordered by descending score, then ascending earliest-match position,
\* then ascending insertion index.
C8_RankedOrderOfDistinctTexts ==
    (Ranked /\ DistinctTexts(finder.collection)) => InRankingOrder

\* C8's case: a ranked search over distinct texts returns two sentences tied
\* on score and earliest match, and two sentences that differ in score.
C8_Witness ==
    /\ Ranked
    /\ DistinctTexts(finder.collection)
    /\ \E a, b \in ToSet(MapKeys(last.sentence_matches)) :
          /\ a < b
          /\ MapGet(last.scoreMap, a) = MapGet(last.scoreMap, b)
          /\ MapGet(last.earliestMatchMap, a) = MapGet(last.earliestMatchMap, b)
          /\ \E i, j \in 1..Len(last.results) :
                /\ i < j
                /\ last.results[i] = At(finder.collection, a)
                /\ last.results[j] = At(finder.collection, b)

\* The largest number of pairwise non-overlapping occurrences of the
\* non-empty string q in st.
Occurrences(st, q) ==
    LET at == {p \in 0..(Len(st) - Len(q)) : SubSeq(st, p + 1, p + Len(q)) = q}
        apart == {X \in SUBSET at :
                     \A x, y \in X : x < y => y - x >= Len(q)}
    IN  CHOOSE n \in 0..Cardinality(at) :
            /\ \E X \in apart : Cardinality(X) = n
            /\ \A X \in apart : Cardinality(X) <= n

\* The award C9 gives one occurrence of the query token q in the sentence
\* token st.
ClaimedAward(st, q) ==
    CASE st = q -> 10
      [] st # q /\ startsWith(st, q) -> 2
      [] OTHER -> 1

\* The sum of the awards over the pairs <<i, j>> of a query token i and a
\* sentence token j.
RECURSIVE ClaimedScore(_, _, _)
ClaimedScore(tokens, sentenceTokens, pairs) ==
    IF pairs = {} THEN 0
    ELSE LET p == CHOOSE x \in pairs : TRUE
         IN  Occurrences(sentenceTokens[p[2]], tokens[p[1]])
                * ClaimedAward(sentenceTokens[p[2]], tokens[p[1]])
             + ClaimedScore(tokens, sentenceTokens, pairs \ {p})

\* C9: after a ranked search, the score of every matched sentence is the sum,
\* over the query tokens (repeats included) and the sentence's tokens, of the
\* award of every occurrence of the query token in the sentence token: 10
\* when the two are equal, 2 when the sentence token starts with the query
\* token, 1 when it only contains it; and the earliest-match position is the
\* smallest position of a sentence token that earned an award.
C9_ScoreAndEarliest ==
    Ranked =>
        /\ MapKeys(last.scoreMap) = MapKeys(last.sentence_matches)
        /\ MapKeys(last.earliestMatchMap) = MapKeys(last.sentence_matches)
        /\ \A n \in 1..Len(last.scoreMap) :
              LET idx            == last.scoreMap[n][1]
                  sentenceTokens == NormalizedTokens(finder, At(finder.collection, idx))
                  awarded == {j \in 1..Len(sentenceTokens) :
                                \E i \in 1..Len(last.tokens) :
                                    Occurrences(sentenceTokens[j], last.tokens[i]) > 0}
              IN  /\ last.scoreMap[n][2]
                       = ClaimedScore(last.tokens, sentenceTokens,
                                      (1..Len(last.tokens)) \X (1..Len(sentenceTokens)))
                  /\ awarded # {} =>
                       /\ last.earliestMatchMap[n][2] + 1 \in awarded
                       /\ \A j \in awarded : last.earliestMatchMap[n][2] + 1 <= j

\* C9's case: a ranked search whose query repeats a token, over a sentence
\* with a token that holds the query token twice, and with a sentence token
\* that contains a query token without starting with it.
C9_Witness ==
    /\ Ranked
    /\ Len(last.tokens) > Cardinality(ToSet(last.tokens))
    /\ \E n \in 1..Len(last.scoreMap) :
          LET sentenceTokens ==
                  NormalizedTokens(finder, At(finder.collection, last.scoreMap[n][1]))
          IN  /\ last.scoreMap[n][2] > 0
              /\ \E j \in 1..Len(sentenceTokens), i \in 1..Len(last.tokens) :
                    Occurrences(sentenceTokens[j], last.tokens[i]) = 2
    /\ \E n \in 1..Len(last.scoreMap) :
          LET sentenceTokens ==
                  NormalizedTokens(finder, At(finder.collection, last.scoreMap[n][1]))
          IN  \E j \in 1..Len(sentenceTokens), i \in 1..Len(last.tokens) :
                  /\ includes(sentenceTokens[j], last.tokens[i])
                  /\ ~startsWith(sentenceTokens[j], last.tokens[i])

\* C10: suggest(p) for a blank p returns an empty list, and for any other p
\* exactly the dictionary keys that start with the normalized p, each once,
\* in ascending order.
C10_SuggestExactPrefixMatches ==
    last.op = "suggest" =>
        IF trim(last.args) = <<>> THEN last.results = <<>>
        ELSE /\ ToSet(last.results)
                  = {k \in ToSet(MapKeys(finder.dictionary)) :
                        startsWith(k, normalize_word(last.args, finder.case_sensitive))}
             /\ \A i, j \in 1..Len(last.results) :
                   i < j => StrLess(last.results[i], last.results[j])

\* The collection of f is one that merges have built: no array that init is
\* called with.
BuiltByMerges(f) ==
    /\ f.collection \notin Inputs
    /\ Undefined \notin ToSet(f.collection)

\* C11: in every reachable state the suggestion cache is either absent or the
\* sorted sequence of the current dictionary keys; init, merge and reset each
\* leave it absent; and suggest keeps a cache it finds, building one only when
\* there is none.
C11_CacheAbsentOrCurrent ==
    /\ \/ finder.sorted_dictionary_cache = Null
       \/ finder.sorted_dictionary_cache = SortStrings(MapKeys(finder.dictionary))
    /\ (last.op \in {"init", "merge", "reset"} /\ last.threw = "none")
          => finder.sorted_dictionary_cache = Null
    /\ (last.op = "suggest" /\ before.sorted_dictionary_cache # Null)
          => finder.sorted_dictionary_cache = before.sorted_dictionary_cache

\* The number of positions of the sequence xs that hold x.
Count(xs, x) == Cardinality({i \in 1..Len(xs) : xs[i] = x})

\* The call that has just run is a merge without deduplicate, of source.
MergedPlainly == Merged /\ ~last.args.deduplicate

\* C12: after merge(other), for every source sentence the keys that list its
\* new position are the tokens the receiving finder's own tokenizer and case
\* policy give for it, the count added to each key's frequency is the number
\* of times those tokens hold the key, and a search for any such token finds
\* the sentence.
C12_MergeUsesReceivingPolicy ==
    MergedPlainly =>
        LET source == last.args.finder
            offset == Len(before.collection)
            own(j) == IF source.collection[j] = Undefined THEN <<>>
                      ELSE NormalizedTokens(finder, source.collection[j])
            old(k) == IF MapHas(before.word_frequency, k)
                      THEN MapGet(before.word_frequency, k) ELSE 0
            sum[j \in 0..Len(source.collection)] ==
                [k \in ToSet(MapKeys(finder.word_frequency)) |->
                    IF j = 0 THEN 0 ELSE sum[j - 1][k] + Count(own(j), k)]
        IN  /\ \A j \in 1..Len(source.collection) :
                  /\ {k \in ToSet(MapKeys(finder.dictionary)) :
                          (offset + j - 1) \in ToSet(MapGet(finder.dictionary, k))}
                        = ToSet(own(j))
                  /\ \A t \in ToSet(own(j)) :
                        trim(t) # <<>> =>
                            source.collection[j] \in ToSet(search(finder, t, MinOne).results)
            /\ \A k \in ToSet(MapKeys(finder.word_frequency)) :
                  MapGet(finder.word_frequency, k) - old(k)
                     = sum[Len(source.collection)][k]

\* The call that has just run is a merge with deduplicate.
MergedDeduplicating == Merged /\ last.args.deduplicate

\* The call that has just run is a merge with deduplicate that has returned.
DeduplicatingMergeReturned == MergeReturned /\ last.args.deduplicate

\* The texts that both the receiving collection, as it was before the merge,
\* and the source collection hold.
SharedTexts ==
    (ToSet(before.collection) \cap ToSet(last.args.finder.collection)) \ {Undefined}

\* The receiving collection after merge(other, {deduplicate: true}) is the one
\* before it followed by the source sentences whose text it did not hold, in
\* source order.
DeduplicatedLayout ==
    finder.collection
       = before.collection
            \o SelectSeq(last.args.finder.collection,
                         LAMBDA s : s \notin ToSet(before.collection))

C14_SecondMergeAddsNothing ==
    MergedDeduplicating =>
        LET source == last.args.finder
        IN  /\ Len(merge(finder, source, TRUE).collection) = Len(finder.collection)
            /\ ToSet(source.collection) \subseteq ToSet(before.collection)
                  => Len(finder.collection) = Len(before.collection)

\* C14's case: the second of two deduplicating merges of a source.  The
\* receiver it starts from is some sentences followed by the source sentences
\* that the first merge added to them, and it ends with the same collection.
C14_Witness ==
    /\ MergedDeduplicating
    /\ ~last.args.isThis
    /\ BuiltByMerges(before)
    /\ \E k \in 1..(Len(before.collection) - 1) :
          LET base  == SubSeq(before.collection, 1, k)
              added == SubSeq(before.collection, k + 1, Len(before.collection))
          IN  added = SelectSeq(last.args.finder.collection,
                                LAMBDA s : s \notin ToSet(base))
    /\ ToSet(last.args.finder.collection) \subseteq ToSet(before.collection)
    /\ finder.collection = before.collection

\* C15: every search call that returns fires exactly one 'search'
\* notification, whose payload is the number of results it returns; a call
\* with a blank query returns no results and fires it with count 0.
C15_SearchAlwaysNotifies ==
    (last.op = "search" /\ last.threw = "none") =>
        /\ last.emitted = << <<"search", Len(last.results)>> >>
        /\ trim(last.args.search_input) = <<>> => last.results = <<>>

\* The call that has just run is init with an argument that is not a sequence
\* of text (not an array, or an array with an element that is not a string),
\* or merge with an argument that is not a SentenceFinder.
InvalidArgument ==
    \/ /\ last.op = "init"
       /\ \/ ~last.args.isArray
          \/ Undefined \in ToSet(last.args.input)
    \/ last.op = "merge" /\ ~last.args.isSentenceFinder

\* C16: init with an argument that is not a sequence of text, and merge with
\* an argument that is not a SentenceFinder, fail with an error, leave the
\* collection, dictionary, frequency table, text lookup and suggestion cache
\* exactly as they were before the call, and fire no notification.
C16_InvalidArgumentChangesNothing ==
    InvalidArgument =>
        /\ last.threw # "none"
        /\ last.emitted = <<>>
        /\ finder = before

\* The options the finder f was constructed with.
ConstructedWith(f) ==
    CHOOSE options \in Configs :
        /\ options.case_sensitive = f.case_sensitive
        /\ options.tokenizer = f.tokenizer
        /\ SentenceFinder(options).min_match_count = f.min_match_count

\* C17: whatever the state before it, init(S) leaves the collection,
\* dictionary, frequency table, text lookup and suggestion cache that a finder
\* freshly constructed with the same options has after init(S).
C17_InitDiscardsPriorState ==
    Initialized =>
        finder = init(SentenceFinder(ConstructedWith(finder)), last.args.input)

\* C17's case: init on a finder that merges have filled and whose suggestion
\* cache is built, with an array that holds none of its sentences.
C17_Witness ==
    /\ Initialized
    /\ BuiltByMerges(before)
    /\ Len(before.collection) = MaxSentences
    /\ before.sorted_dictionary_cache # Null
    /\ ToSet(before.collection) \cap ToSet(last.args.input) = {}
    /\ finder.collection = last.args.input

\* The collection, dictionary, frequency table and text lookup of f are
\* empty, and its suggestion cache is absent or empty.
Emptied(f) ==
    /\ f.collection = <<>>
    /\ f.dictionary = <<>>
    /\ f.word_frequency = <<>>
    /\ f.index_map = <<>>
    /\ f.sorted_dictionary_cache \in {Null, <<>>}

\* C18: reset leaves the collection, dictionary, frequency table, text lookup
\* and suggestion cache empty, whatever they held, and every search and
\* suggest on the finder it leaves returns an empty result, for every query,
\* prefix and option combination; a search or suggest call on an emptied
\* finder returns an empty result and leaves the finder emptied, so the same
\* holds of every later call up to the next init or merge.
C18_ResetEmptiesEverything ==
    /\ last.op = "reset" =>
          /\ Emptied(finder)
          /\ finder.sorted_dictionary_cache = Null
          /\ \A search_input \in Queries, options \in SearchOptions :
                LET outcome == search(finder, search_input, options)
                IN  outcome.results = <<>> /\ outcome.threw = "none"
          /\ \A prefix \in Prefixes : suggest(finder, prefix) = <<>>
    /\ (last.op \in {"search", "suggest"} /\ Emptied(before)) =>
          /\ last.results = <<>>
          /\ last.threw = "none"
          /\ Emptied(finder)

\* C18's case: reset of a finder that merges have filled and whose suggestion
\* cache is built.
C18_Witness ==
    /\ last.op = "reset"
    /\ BuiltByMerges(before)
    /\ Len(before.collection) = MaxSentences
    /\ before.dictionary # <<>>
    /\ before.sorted_dictionary_cache \notin {Null, <<>>}
    /\ Emptied(finder)

\* C19: a merge that returns fires exactly one 'merge' notification; its
\* payload is the number of sentences of the source collection, whatever
\* deduplication leaves of them; and its listeners see the finder with the
\* collection, dictionary, frequency table, lookup and cache as the merge
\* leaves them.
C19_MergeNotifiesSourceCount ==
    MergeReturned =>
        /\ last.emitted = << <<"merge", Len(last.args.finder.collection)>> >>
        /\ last.observed = finder
        /\ finder = merge(before, last.args.finder, last.args.deduplicate)

\* The call that has just run is a search that returned, without a per-call
\* min_match_count, on a finder constructed without a min_match_count option.
SearchedWithDefaultMinimum ==
    /\ last.op = "search"
    /\ last.threw = "none"
    /\ last.args.options.min_match_count = <<>>
    /\ ConstructedWith(finder).min_match_count = <<>>

\* C20: a finder constructed without a min_match_count option has a minimum
\* of 3: a search without a per-call override returns one sentence for each
\* index matched by at least 3 distinct query tokens and no other, so a query
\* of a single token returns nothing.
C20_DefaultMinimumIsThree ==
    SearchedWithDefaultMinimum =>
        /\ finder.min_match_count = 3
        /\ Len(last.results)
              = Cardinality({n \in 1..Len(last.sentence_matches) :
                                Cardinality(last.sentence_matches[n][2]) >= 3})
        /\ Cardinality(ToSet(last.tokens)) = 1 => last.results = <<>>

\* The number of distinct query tokens that the sentence's own tokens match
\* under the mode of the search: with partial, a token of the sentence
\* contains the query token; without, it equals or starts with it.
TokensMatchedBy(f, sentence, tokens, partial) ==
    Cardinality({t \in ToSet(tokens) :
        \E st \in ToSet(NormalizedTokens(f, sentence)) :
            IF partial THEN includes(st, t) ELSE startsWith(st, t)})

\* C21: in every reachable state, every element a search returns is the text
\* of a sentence stored in the collection, never a missing or out-of-range
\* entry, and the tokens of that sentence match at least the effective
\* minimum of distinct query tokens under the mode of the search.
C21_ResultsAreMatchingSentences ==
    (last.op = "search" /\ last.threw = "none") =>
        \A i \in 1..Len(last.results) :
            /\ last.results[i] # Undefined
            /\ last.results[i] \in ToSet(finder.collection)
            /\ TokensMatchedBy(finder, last.results[i], last.tokens,
                               last.args.options.partial)
                  >= min_match(finder, last.args.options)

\* The keys of the text lookup index_map.
LookupKeys(f) == IF f.index_map = <<>> THEN {} ELSE DOMAIN f.index_map

\* C22: in every reachable state the keys of the text lookup are exactly the
\* distinct texts of the collection, and each text maps to the last (highest)
\* position of the collection that holds it.
C22_LookupIsLastPosition ==
    /\ LookupKeys(finder) = ToSet(finder.collection)
    /\ \A text \in LookupKeys(finder) :
          /\ At(finder.collection, finder.index_map[text]) = text
          /\ \A i \in 1..Len(finder.collection) :
                finder.collection[i] = text => i - 1 <= finder.index_map[text]

\* C23: every search call terminates, for every query, option combination
\* and tokenizer: no call is left inside the occurrence scan of a sentence
\* token for ever.
C23_SearchTerminates ==
    last.op = "search" => last.threw # "diverges"

====
